---- MODULE Spec2Model ----
(***************************************************************************)
(* Model of the Moab visualizer: MoabVisualizer (message intake and the    *)
(* resolution of the wire mapping into the model state) and MoabRenderer   *)
(* (the render pass that poses the scene from the model state).            *)
(*                                                                         *)
(* Numbers are fixed point, in thousandths: 0.020 is 20, 1.0 is 1000.      *)
(* A JavaScript value is a sequence: <<>> is undefined, <<n>> the number n.*)
(***************************************************************************)
EXTENDS Integers, Sequences, FiniteSets, TLC

\* ------------------------------------------------------------------ bounds
\* Wire values range over 0..MaxVal (thousandths).
MaxVal == 1
\* Gamepads carry the indices 0..MaxPad.
MaxPad == 1
\* Where the messages are counted, at most MaxMessages are accepted.
MaxMessages == 2

\* --------------------------------------------------------------- constants
DefaultBallRadius == 20
DefaultPlateZ == 42
PlateOriginToSurfaceOffset == 9
\* the two links of an arm (a and b of _anglesForArmJoints)
ArmA == 55
ArmB == 55
\* the distance of the ball contact point from the plate group origin
ContactOffset == 100

\* ------------------------------------------------------------------- state
VARIABLES
    mounted,          \* componentDidMount has installed the message listener
    theme,            \* MoabVisualizer.state.theme
    isInteractive,    \* MoabVisualizer.state.isInteractive
    isModelValid,     \* MoabVisualizer.state.isModelValid
    model,            \* MoabVisualizer.state.model.state
    keyboardInput,    \* MoabVisualizer._keyboardInput
    activeGamepadIndex, \* MoabVisualizer._activeGamepadIndex
    posted,           \* the action of the last ActionUpdate posted to the parent, <<>> if none
    camera,           \* MoabRenderer._camera is set (the assets are loaded)
    plateOrig,        \* MoabRenderer._plateOrig
    plateSurfaceOrig, \* MoabRenderer._plateSurfaceOrig
    scene,            \* poses and visibility flags of the scene objects
    outcome,          \* how the last message event left _receiveMessage
    lastUpdate,       \* history: <<mapping of the last accepted message>>, <<>> if none
    superseded,       \* history: the last accepted message lacks a key that the
                      \* accepted message before it carried
    polled,           \* history: navigator.getGamepads()[_activeGamepadIndex] as the
                      \* last _sendActionFromInput read it, <<>> if it read none
    counting,         \* whether this behaviour counts the messages
    nPosted,          \* history: the ActionUpdate messages posted, while counting
    nAccepted,        \* history: the messages accepted, while counting
    lastConnect,      \* history: <<index, gone>> of the most recent gamepadconnected
                      \* event, gone when a gamepaddisconnected event has carried
                      \* that index since; <<>> if there was none
    unmounted,        \* componentWillUnmount has run
    listeners,        \* the event types for which the components have a listener
                      \* registered on window
    container,        \* MoabRenderer._container is set (not null)
    loaded            \* how the asset-load callback ended: "pending" until it has
                      \* run, then "completed" or "raised"

vars ==
    << mounted, theme, isInteractive, isModelValid, model, keyboardInput,
       activeGamepadIndex, posted, camera, plateOrig, plateSurfaceOrig, scene, outcome,
       lastUpdate, superseded, polled, counting, nPosted, nAccepted, lastConnect,
       unmounted, listeners, container, loaded >>

\* ------------------------------------------------------- JavaScript values
Undefined == <<>>
Num(n) == <<n>>
Val(x) == x[1]

\* a ?? b
Nullish(x, d) == IF x = Undefined THEN d ELSE x

\* a || b : undefined and 0 are falsy
LogicalOr(x, y) == IF x = Undefined \/ x = Num(0) THEN y ELSE x

\* !!a
Truthy(x) == x # Undefined /\ x # Num(0)

\* ------------------------------------------------------------ wire mapping
Keys ==
    { "time_delta", "ball_radius",
      "ball_x", "ball_y", "ball_z",
      "ball_vel_x", "ball_vel_y", "ball_vel_z",
      "ball_qat_x", "ball_qat_y", "ball_qat_z", "ball_qat_w",
      "estimated_x", "estimated_y", "estimated_radius",
      "estimated_vel_x", "estimated_vel_y",
      "target_x", "target_pos_x", "target_y", "target_pos_y",
      "obstacle_x", "obstacle_pos_x", "obstacle_y", "obstacle_pos_y",
      "obstacle_radius",
      "plate_x", "plate_pos_x", "plate_y", "plate_pos_y",
      "plate_z", "plate_pos_z",
      "plate_nor_x", "plate_nor_y", "plate_nor_z",
      "roll", "tilt_x", "pitch", "tilt_y",
      "terminal", "reward" }

\* let x = state[current]; if (x === undefined) x = state[legacy];
LegacyFirst(state, current, legacy) ==
    IF state[legacy] = Undefined THEN state[current] ELSE state[legacy]
Legacy(state, current, legacy) ==
    IF state[current] = Undefined THEN state[legacy] ELSE state[current]

\* estimatedPosX: state['estimated_x'] and its four siblings: no default.
EstimatedDefaulted(state, key) == Nullish(state[key], Num(0))
EstimatedKept(state, key) ==
    LET field == CASE key = "estimated_x" -> "estimatedPosX"
                   [] key = "estimated_y" -> "estimatedPosY"
                   [] key = "estimated_radius" -> "estimatedRadius"
                   [] key = "estimated_vel_x" -> "estimatedVelX"
                   [] key = "estimated_vel_y" -> "estimatedVelY"
    IN  IF state[key] = Undefined THEN model[field] ELSE state[key]
Estimated(state, key) == state[key]

\* The model state built from the mapping `state` of an accepted message.
ResolveState(state) ==
    LET ballRadius == Nullish(state["ball_radius"], Num(DefaultBallRadius))
        roll == Legacy(state, "roll", "tilt_x")
        pitch == Legacy(state, "pitch", "tilt_y")
        obstaclePosX == Legacy(state, "obstacle_x", "obstacle_pos_x")
        obstaclePosY == Legacy(state, "obstacle_y", "obstacle_pos_y")
        platePosX == Legacy(state, "plate_x", "plate_pos_x")
        platePosY == Legacy(state, "plate_y", "plate_pos_y")
        platePosZ == Legacy(state, "plate_z", "plate_pos_z")
        targetPosX == Legacy(state, "target_x", "target_pos_x")
        targetPosY == Legacy(state, "target_y", "target_pos_y")
    IN  [ timeDelta |-> Nullish(state["time_delta"], Num(20)),
          ballRadius |-> ballRadius,
          ballPosX |-> Nullish(state["ball_x"], Num(0)),
          ballPosY |-> Nullish(state["ball_y"], Num(0)),
          ballPosZ |-> Nullish(state["ball_z"],
                        Num(PlateOriginToSurfaceOffset + DefaultPlateZ + Val(ballRadius))),
          ballVelX |-> Nullish(state["ball_vel_x"], Num(0)),
          ballVelY |-> Nullish(state["ball_vel_y"], Num(0)),
          ballVelZ |-> Nullish(state["ball_vel_z"], Num(0)),
          ballOrientX |-> Nullish(state["ball_qat_x"], Num(0)),
          ballOrientY |-> Nullish(state["ball_qat_y"], Num(0)),
          ballOrientZ |-> Nullish(state["ball_qat_z"], Num(0)),
          ballOrientW |-> Nullish(state["ball_qat_w"], Num(1000)),
          estimatedPosX |-> Estimated(state, "estimated_x"),
          estimatedPosY |-> Estimated(state, "estimated_y"),
          estimatedRadius |-> Estimated(state, "estimated_radius"),
          estimatedVelX |-> Estimated(state, "estimated_vel_x"),
          estimatedVelY |-> Estimated(state, "estimated_vel_y"),
          targetPosX |-> Nullish(targetPosX, Num(0)),
          targetPosY |-> Nullish(targetPosY, Num(0)),
          obstaclePosX |-> Nullish(obstaclePosX, Num(30)),
          obstaclePosY |-> Nullish(obstaclePosY, Num(30)),
          obstacleRadius |-> Nullish(state["obstacle_radius"], Num(0)),
          platePosX |-> Nullish(platePosX, Num(0)),
          platePosY |-> Nullish(platePosY, Num(0)),
          platePosZ |-> Nullish(platePosZ, Num(DefaultPlateZ)),
          plateNorX |-> Nullish(state["plate_nor_x"], Num(0)),
          plateNorY |-> Nullish(state["plate_nor_y"], Num(0)),
          plateNorZ |-> Nullish(state["plate_nor_z"], Num(1000)),
          roll |-> Nullish(roll, Num(0)),
          pitch |-> Nullish(pitch, Num(0)),
          terminal |-> Truthy(state["terminal"]),
          reward |-> state["reward"] ]

\* The model state the constructor installs.
InitialModelState ==
    [ timeDelta |-> Num(20),
      ballRadius |-> Num(DefaultBallRadius),
      ballPosX |-> Num(0),
      ballPosY |-> Num(0),
      ballPosZ |-> Num(DefaultPlateZ + PlateOriginToSurfaceOffset + DefaultBallRadius),
      ballVelX |-> Num(0),
      ballVelY |-> Num(0),
      ballVelZ |-> Num(0),
      ballOrientX |-> Num(0),
      ballOrientY |-> Num(0),
      ballOrientZ |-> Num(0),
      ballOrientW |-> Num(1000),
      estimatedPosX |-> Num(0),
      estimatedPosY |-> Num(0),
      estimatedRadius |-> Num(DefaultBallRadius),
      estimatedVelX |-> Num(0),
      estimatedVelY |-> Num(0),
      targetPosX |-> Num(0),
      targetPosY |-> Num(0),
      obstaclePosX |-> Num(30),
      obstaclePosY |-> Num(30),
      obstacleRadius |-> Num(0),
      platePosX |-> Num(0),
      platePosY |-> Num(0),
      platePosZ |-> Num(DefaultPlateZ),
      plateNorX |-> Num(0),
      plateNorY |-> Num(0),
      plateNorZ |-> Num(1000),
      roll |-> Num(0),
      pitch |-> Num(0),
      terminal |-> FALSE,
      reward |-> Num(0) ]

\* ---------------------------------------------------------------- messages
WireVals == {Undefined} \cup { Num(n) : n \in 0..MaxVal }

\* The values tried for key k. A radius of the obstacle below zero is tried
\* as well; the components of the plate normal are tried in whole units.
WireValsOf(k) ==
    IF k = "obstacle_radius" THEN WireVals \cup { Num(-1) }
    ELSE IF k \in {"plate_nor_x", "plate_nor_y", "plate_nor_z"}
    THEN {Undefined} \cup { Num(1000 * n) : n \in 0..MaxVal }
    ELSE WireVals

EmptyMap == [k \in Keys |-> Undefined]

\* The nine current/legacy name pairs.
AliasPairs ==
    { <<"roll", "tilt_x">>, <<"pitch", "tilt_y">>,
      <<"obstacle_x", "obstacle_pos_x">>, <<"obstacle_y", "obstacle_pos_y">>,
      <<"plate_x", "plate_pos_x">>, <<"plate_y", "plate_pos_y">>,
      <<"plate_z", "plate_pos_z">>,
      <<"target_x", "target_pos_x">>, <<"target_y", "target_pos_y">> }

\* The keys a message populates lie in one group; every value of WireVals is
\* tried for each key of the group, and the other keys are absent.
\* Intake: each alias pair, and each key alone.
IntakeGroups ==
    { {p[1], p[2]} : p \in AliasPairs } \cup { {k} : k \in Keys }

\* Scene: the keys the visibility rules and the ring position read.
SceneGroups ==
    { {"estimated_x", "estimated_y", "estimated_radius", "ball_x"},
      {"estimated_vel_x", "estimated_vel_y"},
      {"target_x", "target_y"},
      {"obstacle_radius"} }

StateMaps(groups) ==
    UNION { { [k \in Keys |-> IF k \in g THEN a[k] ELSE Undefined]
                : a \in { b \in [g -> UNION { WireValsOf(k) : k \in g }]
                            : \A k \in g : b[k] \in WireValsOf(k) } }
            : g \in groups }

\* evt.data of a window message event.
\*   data      "nonstring"  typeof data is not 'string'
\*             "badjson"    a string JSON.parse rejects
\*             "null"       the JSON text null
\*             "primitive"  JSON for a number, a string or a boolean
\*             "object"     JSON for an object
\*   version   whether semver.satisfies(message.version, CompatibleVersion)
\*   type      message.type
\*   stateKind message.state: "undefined", "null", "primitive" or "object"
\*   state     the mapping, when stateKind is "object"
Payload(data, version, type, stateKind, state) ==
    [ data |-> data, version |-> version, type |-> type,
      stateKind |-> stateKind, state |-> state ]

Malformed ==
    { Payload(d, "incompatible", "other", "undefined", EmptyMap)
        : d \in {"nonstring", "badjson", "null", "primitive"} }
    \cup { Payload("object", v, t, k, EmptyMap)
        : v \in {"compatible", "incompatible"},
          t \in {"IterationUpdate", "other"},
          k \in {"undefined", "null", "primitive"} }
    \cup { Payload("object", v, t, "object", EmptyMap)
        : v \in {"compatible", "incompatible"}, t \in {"other"} }
    \cup { Payload("object", "incompatible", "IterationUpdate", "object", EmptyMap) }

Updates(groups) ==
    { Payload("object", "compatible", "IterationUpdate", "object", s) : s \in StateMaps(groups) }

IntakePayloads == Malformed \cup Updates(IntakeGroups)

\* Plate poses. The normals: level, level and twice as long, tilted of unit
\* length, tilted and longer, opposite to zAxis, below the plate and longer,
\* and zero. The heights and the displacements along y put the centre arm,
\* under a level plate, within reach, at full extension (c = a + b), folded
\* onto its mount (c = 0) and out of reach. Beside the plate poses, the
\* joystick deflections, and two states that show the estimated position ring.
PlateNormals ==
    { <<0, 0, 1000>>, <<0, 0, 2000>>,
      <<600, 0, 800>>, <<-600, 0, 800>>, <<0, 600, 800>>,
      <<1000, 0, 1000>>, <<0, 1000, 1000>>,
      <<0, 0, -1000>>, <<1000, 0, -2000>>, <<0, 0, 0>> }

PlateYs == { Undefined, Num(-20), Num(24) }

PlateZs == { Undefined, Num(-8), Num(58), Num(102), Num(150) }

JoystickVals == { Undefined, Num(-1000), Num(0), Num(1000) }

PoseStates ==
    { [EmptyMap EXCEPT !["plate_nor_x"] = Num(n[1]), !["plate_nor_y"] = Num(n[2]),
                       !["plate_nor_z"] = Num(n[3]), !["plate_y"] = y, !["plate_z"] = z]
        : n \in PlateNormals, y \in PlateYs, z \in PlateZs }
    \cup { [EmptyMap EXCEPT !["pitch"] = a, !["roll"] = b]
             : a \in JoystickVals, b \in JoystickVals }
    \cup { [EmptyMap EXCEPT !["estimated_x"] = x, !["estimated_y"] = Num(1),
                            !["estimated_radius"] = Num(1)]
             : x \in { Num(1), Num(2) } }

PosePayloads ==
    { Payload("object", "compatible", "IterationUpdate", "object", s) : s \in PoseStates }

ScenePayloads == Updates(SceneGroups)

\* What _receiveMessage does with a payload, by its statements in order:
\* "dropped" (an early return), "raised" (a TypeError leaves the handler) or
\* "accepted" (setState is reached).
Disposition(p) ==
    IF p.data \in {"nonstring", "badjson"} THEN "dropped"
    ELSE IF p.data = "null" THEN "raised"            \* message.version of null
    ELSE IF p.data = "primitive" THEN "dropped"      \* version is undefined
    ELSE IF p.version # "compatible" THEN "dropped"
    ELSE IF p.type # "IterationUpdate" THEN "dropped"
    ELSE IF p.stateKind \in {"undefined", "null"} THEN "raised"  \* state['ball_radius']
    ELSE "accepted"

\* message.state as the handler indexes it: a primitive has no such keys.
StateOf(p) == IF p.stateKind = "object" THEN p.state ELSE EmptyMap

\* ------------------------------------------------------------- exact reals
\* The arm poses are computed over the reals (a + b*sqrt(3))/d with integers
\* a, b and d > 0: the three arms stand 120 degrees apart, so sqrt(3) enters
\* through sin(2*pi/3). The fractions are not reduced.
Abs(n) == IF n < 0 THEN -n ELSE n

RECURSIVE GCD(_, _)
GCD(m, n) == IF n = 0 THEN m ELSE GCD(n, m % n)

LCM(m, n) == (m * n) \div GCD(m, n)

Real(a, b, d) == [ a |-> a, b |-> b, d |-> d ]

Rat(n) == Real(n, 0, 1)

REq(x, y) == x.a * y.d = y.a * x.d /\ x.b * y.d = y.b * x.d

RSub(x, y) ==
    LET l == LCM(x.d, y.d)
    IN  Real(x.a * (l \div x.d) - y.a * (l \div y.d),
             x.b * (l \div x.d) - y.b * (l \div y.d), l)

\* x / n for an integer n > 0
RDivInt(x, n) == Real(x.a, x.b, x.d * n)

\* x / y > sqrt(3), for integers x >= 0 and y > 0. With x = y + r and
\* 0 < r < y: 1 + r/y > sqrt(3) iff (2y - r)/r < sqrt(3), and the two are
\* never equal.
RECURSIVE ExceedsSqrt3(_, _)
ExceedsSqrt3(x, y) ==
    IF x >= 2 * y THEN TRUE
    ELSE IF x <= y THEN FALSE
    ELSE ~ExceedsSqrt3(3 * y - x, x - y)

\* the sign of a + b*sqrt(3): -1, 0 or 1
Sign(a, b) ==
    IF a >= 0 /\ b >= 0 THEN (IF a = 0 /\ b = 0 THEN 0 ELSE 1)
    ELSE IF a <= 0 /\ b <= 0 THEN -1
    ELSE IF a > 0 THEN (IF ExceedsSqrt3(a, -b) THEN 1 ELSE -1)
    ELSE (IF ExceedsSqrt3(-a, b) THEN -1 ELSE 1)

RSign(x) == Sign(x.a, x.b)

RLe(x, y) == Sign(x.a * y.d - y.a * x.d, x.b * y.d - y.b * x.d) <= 0

\* Math.* results that are not a number
NaN == <<>>

\* ---------------------------------------------------------------- renderer
VAdd(a, b) == << a[1] + b[1], a[2] + b[2], a[3] + b[3] >>

zAxis == <<0, 0, 1000>>

\* A vector of reals over a common denominator den > 0: num holds, for each
\* coordinate, the pair <<a, b>> of the numerator a + b*sqrt(3).
Scaled(v) == [ num |-> << <<v[1], 0>>, <<v[2], 0>>, <<v[3], 0>> >>, den |-> 1 ]

PAdd(p, q) == << p[1] + q[1], p[2] + q[2] >>

PScale(k, p) == << k * p[1], k * p[2] >>

\* Vector3.add of a vector of numbers
SAdd(v, w) ==
    [ num |-> << PAdd(v.num[1], <<v.den * w[1], 0>>),
                 PAdd(v.num[2], <<v.den * w[2], 0>>),
                 PAdd(v.num[3], <<v.den * w[3], 0>>) >>,
      den |-> v.den ]

\* the coordinate i of v
Coordinate(v, i) == Real(v.num[i][1], v.num[i][2], v.den)

\* Quaternion.normalize: a quaternion <<x, y, z, w>> is kept up to a positive
\* factor, as the integers in lowest terms; one of length 0 becomes identity.
Normalize(q) ==
    LET g == GCD(GCD(Abs(q[1]), Abs(q[2])), GCD(Abs(q[3]), Abs(q[4])))
    IN  IF g = 0 THEN <<0, 0, 0, 1>>
        ELSE << q[1] \div g, q[2] \div g, q[3] \div g, q[4] \div g >>

\* Quaternion.setFromUnitVectors(vFrom, vTo) of three.js: r = vFrom.vTo + 1;
\* below EPS an axis orthogonal to vFrom with w = 0, else the cross product
\* with w = r; then normalize(). Neither argument is normalised by it.
SetFromUnitVectors(vFrom, vTo) ==
    LET r == vFrom[1] * vTo[1] + vFrom[2] * vTo[2] + vFrom[3] * vTo[3] + 1000 * 1000
    IN  IF r <= 0
        THEN IF Abs(vFrom[1]) > Abs(vFrom[3])
             THEN Normalize(<< -vFrom[2], vFrom[1], 0, 0 >>)
             ELSE Normalize(<< 0, -vFrom[3], vFrom[2], 0 >>)
        ELSE Normalize(<< vFrom[2] * vTo[3] - vFrom[3] * vTo[2],
                          vFrom[3] * vTo[1] - vFrom[1] * vTo[3],
                          vFrom[1] * vTo[2] - vFrom[2] * vTo[1],
                          r >>)

\* The rotation matrix of the quaternion q, times |q|^2, by rows.
RotationRows(q) ==
    LET x == q[1]  y == q[2]  z == q[3]  w == q[4]
    IN  << << w*w + x*x - y*y - z*z, 2 * (x*y - w*z), 2 * (x*z + w*y) >>,
           << 2 * (x*y + w*z), w*w - x*x + y*y - z*z, 2 * (y*z - w*x) >>,
           << 2 * (x*z - w*y), 2 * (y*z + w*x), w*w - x*x - y*y + z*z >> >>

Norm2(q) == q[1]*q[1] + q[2]*q[2] + q[3]*q[3] + q[4]*q[4]

\* Vector3.applyQuaternion(q)
ApplyQuaternion(v, q) ==
    LET m == RotationRows(q)
        row(i) == PAdd(PAdd(PScale(m[i][1], v.num[1]), PScale(m[i][2], v.num[2])),
                       PScale(m[i][3], v.num[3]))
    IN  [ num |-> << row(1), row(2), row(3) >>, den |-> v.den * Norm2(q) ]

\* The rotation about zAxis by turn * 2*pi/3 (turn is -1, 0 or 1) that
\* applyMatrix4(makeRotationAxis(zAxis, +-angle)) gives a cloned arm:
\* cos = -1/2 and sin = turn * sqrt(3)/2.
ApplyTurn(turn, v) ==
    IF turn = 0 THEN v
    ELSE LET x == v.num[1]
             y == v.num[2]
             sin2(p) == << 3 * turn * p[2], turn * p[1] >>   \* 2 * sin * p
         IN  [ num |-> << PAdd(PScale(-1, x), PScale(-1, sin2(y))),
                          PAdd(sin2(x), PScale(-1, y)),
                          PScale(2, v.num[3]) >>,
               den |-> 2 * v.den ]

\* The scene objects as componentDidMount creates them (THREE.Object3D
\* starts at the origin, at unit scale, unrotated, visible). A rotation is a
\* quaternion <<x, y, z, w>>; that of the joystick is the sequence of the
\* rotations applied to it since it was last reset, each << axis, angle >>
\* with the angle in units of pi/12. frame is << the poses the renderer drew
\* last >>, or <<>> before the first draw.
InitialScene ==
    [ background |-> "none",
      ballPosition |-> <<0, 0, 0>>,
      ballScale |-> 1000,
      targetPosition |-> <<0, 0, 0>>,
      targetVisible |-> TRUE,
      obstaclePosition |-> <<0, 0, 0>>,
      obstacleScale |-> 1000,
      obstacleVisible |-> TRUE,
      estimatedPosPosition |-> <<0, 0, 0>>,
      estimatedPosScale |-> 1000,
      estimatedPosVisible |-> TRUE,
      estimatedVelPosition |-> <<0, 0, 0>>,
      estimatedVelVisible |-> TRUE,
      platePosition |-> <<0, 0, 0>>,
      plateQuaternion |-> <<0, 0, 0, 1>>,
      ballRotation |-> <<0, 0, 0, 1>>,
      estimatedPosRotation |-> <<0, 0, 0, 1>>,
      joystickRotation |-> <<>>,
      armPosition |-> <<0, 0, 0>>,
      arms |-> <<>>,
      frame |-> <<>>,
      rendered |-> FALSE ]

\* The bounding box of BALANCE_PLATE_ASSEMBLY in the GLTF asset: its centre
\* and its top. The asset is not part of the sources; any box does.
\* arm is the position of the ARM_ASSEMBLY group, whose own rotation is taken
\* to be the identity; the arms do not exist before the asset is loaded.
Assets ==
    { [ center |-> <<2, -1, 3>>, maxZ |-> 5, arm |-> <<0, 58, -3>> ] }

\* ballRingPos
BallRingPos(moabState, orig) ==
    VAdd(<< Val(LogicalOr(moabState.estimatedPosX, moabState.ballPosX)),
            Val(LogicalOr(moabState.estimatedPosY, moabState.ballPosY)),
            Val(moabState.platePosZ) >>, orig)

\* this._target.visible
TargetVisibleBoth(targetPos) == targetPos[1] # 0 /\ targetPos[2] # 0
TargetVisible(targetPos) == targetPos[1] # 0 \/ targetPos[2] # 0

\* this._obstacle.visible
ObstacleVisibleNonZero(moabState) == Val(moabState.obstacleRadius) # 0
ObstacleVisible(moabState) == Val(moabState.obstacleRadius) > 0

\* the condition under which the estimated position ring is posed and shown
EstimatedPosShownTruthy(moabState) ==
    /\ Truthy(moabState.estimatedPosX)
    /\ Truthy(moabState.estimatedPosY)
    /\ Truthy(moabState.estimatedRadius)
EstimatedPosShown(moabState) ==
    /\ moabState.estimatedPosX # Undefined
    /\ moabState.estimatedPosY # Undefined
    /\ moabState.estimatedRadius # Undefined

\* the condition under which the estimated velocity arrow is posed and shown
EstimatedVelShownEither(moabState) ==
    \/ moabState.estimatedVelX # Undefined
    \/ moabState.estimatedVelY # Undefined
EstimatedVelShown(moabState) ==
    /\ moabState.estimatedVelX # Undefined
    /\ moabState.estimatedVelY # Undefined

\* Math.pow(v, 2) + Math.pow(h, 2)
HypotSquared(v, h) ==
    LET l == LCM(v.d, h.d)
        va == v.a * (l \div v.d)
        vb == v.b * (l \div v.d)
        ha == h.a * (l \div h.d)
        hb == h.b * (l \div h.d)
    IN  Real(va * va + 3 * vb * vb + ha * ha + 3 * hb * hb,
             2 * (va * vb + ha * hb), l * l)

\* Math.acos(x) is a number exactly for x in [-1, 1]
AcosDefined(x) == RLe(Rat(-1), x) /\ RLe(x, Rat(1))

\* _anglesForArmJoints(v, h). c is kept as its square c2. An angle that is a
\* number is kept as << the value its formula is evaluated on >>:
\*   theta_link   PI + acos(arg), by arg = (a^2 + b^2 - c^2) / (2ab)
\*   theta_servo  2*PI - (theta_hc - theta_ac or PI - (theta_hc + theta_ac)),
\*                by v, c2 and the branch h >= 0
\* theta_hc = asin(v / c) is 0/0 for c = 0, and else |v / c| <= 1.
\* theta_ac = acos((a^2 + c^2 - b^2) / (2ac)) is 0/0 for c = 0, and else its
\* argument is in [-1, 1] exactly when |a - b| <= c <= a + b.
AnglesForArmJoints(v, h) ==
    LET c2 == HypotSquared(v, h)
        hcDefined == RSign(c2) # 0
        linkArg == RDivInt(RSub(Rat(ArmA * ArmA + ArmB * ArmB), c2), 2 * ArmA * ArmB)
        acDefined ==
            /\ RSign(c2) # 0
            /\ RLe(Rat((ArmA - ArmB) * (ArmA - ArmB)), c2)
            /\ RLe(c2, Rat((ArmA + ArmB) * (ArmA + ArmB)))
    IN  [ theta_link |-> IF AcosDefined(linkArg) THEN << linkArg >> ELSE NaN,
          theta_servo |->
              IF hcDefined /\ acDefined
              THEN << [ v |-> v, c2 |-> c2, front |-> RSign(h) >= 0 ] >>
              ELSE NaN ]

\* _orientArm for the arm group mounted at armPosition turned by `turn`
\* (its quaternion is that turn): the offset that is rotated, the (v, h)
\* passed to the solver, and the angles set on PLATE_ARM and SERVO_ARM.
OrientArm(armPosition, turn, platePos, plateQ) ==
    LET offset == << 0, platePos[2] + ContactOffset, 0 >>
        jointPosC == SAdd(ApplyQuaternion(ApplyTurn(turn, Scaled(offset)), plateQ), platePos)
        position == ApplyTurn(turn, Scaled(armPosition))
        v == RSub(Coordinate(jointPosC, 3), Coordinate(position, 3))
        h == RSub(Coordinate(jointPosC, 2), Coordinate(position, 2))
        angles == AnglesForArmJoints(v, h)
    IN  [ offset |-> offset, v |-> v, h |-> h,
          plateArm |-> angles.theta_link, servoArm |-> angles.theta_servo ]

\* this._joystick after the pass: reset, then turned about X by pitch * pi/12
\* and about Y by roll * pi/12.
JoystickRotationAccumulated(scn, moabState) ==
    scn.joystickRotation \o << <<"X", Val(moabState.pitch)>>, <<"Y", Val(moabState.roll)>> >>
JoystickRotation(scn, moabState) ==
    << <<"X", Val(moabState.pitch)>>, <<"Y", Val(moabState.roll)>> >>

\* What the scene s shows: for each entity its pose, or <<>> while hidden.
VisiblePoses(s) ==
    [ ball |-> << s.ballPosition, s.ballScale, s.ballRotation >>,
      target |-> IF s.targetVisible THEN << s.targetPosition >> ELSE <<>>,
      obstacle |-> IF s.obstacleVisible THEN << s.obstaclePosition, s.obstacleScale >>
                   ELSE <<>>,
      estimatedPos |-> IF s.estimatedPosVisible
                       THEN << s.estimatedPosPosition, s.estimatedPosScale,
                               s.estimatedPosRotation >>
                       ELSE <<>>,
      estimatedVel |-> IF s.estimatedVelVisible THEN << s.estimatedVelPosition >> ELSE <<>>,
      plate |-> << s.platePosition, s.plateQuaternion >>,
      joystick |-> s.joystickRotation,
      arms |-> s.arms ]

\* this._renderer.render(scene, camera), the last statement of the pass: what
\* is drawn of the scene, which the pass found as `scn` and leaves as `posed`.
DrawnFrameBeforeArms(scn, posed) == VisiblePoses([posed EXCEPT !.arms = scn.arms])
DrawnFrame(scn, posed) == VisiblePoses(posed)

\* The three _orientArm calls of a pass. Each sets its angles anew from the
\* mount and the plate pose alone, so a pass that finds the plate pose of the
\* pass before it sets the angles that are there already.
OrientArms(scn, platePos, plateQ) ==
    IF scn.rendered /\ scn.platePosition = platePos /\ scn.plateQuaternion = plateQ
    THEN scn.arms
    ELSE [ center |-> OrientArm(scn.armPosition, 0, platePos, plateQ),
           left |-> OrientArm(scn.armPosition, 1, platePos, plateQ),
           right |-> OrientArm(scn.armPosition, -1, platePos, plateQ) ]

\* One pass of _render3DScene over the scene `scn`: returns the scene as the
\* pass leaves it. Without a camera the pass returns at once.
Render3DScene(scn, cam, thm, moabState, orig, surfaceOrig) ==
    IF ~cam THEN scn
    ELSE
        LET platePos == VAdd(<< Val(moabState.platePosX), Val(moabState.platePosY),
                                Val(moabState.platePosZ) >>, orig)
            ballPos == VAdd(<< Val(moabState.ballPosX), Val(moabState.ballPosY),
                               Val(moabState.ballPosZ) >>, surfaceOrig)
            targetPos == << Val(moabState.targetPosX), Val(moabState.targetPosY),
                            PlateOriginToSurfaceOffset >>
            obstaclePos == << Val(moabState.obstaclePosX), Val(moabState.obstaclePosY), 0 >>
            ballRingPos == BallRingPos(moabState, orig)
            plateNor == << Val(moabState.plateNorX), Val(moabState.plateNorY),
                           Val(moabState.plateNorZ) >>
            plateQ == SetFromUnitVectors(zAxis, plateNor)
            posed ==
              [ background |-> IF thm = "light" THEN "0x808080" ELSE "0x1a1a1a",
                ballPosition |-> ballPos,
                ballScale |-> Val(moabState.ballRadius),
                targetPosition |-> targetPos,
                targetVisible |-> TargetVisible(targetPos),
                obstaclePosition |-> obstaclePos,
                obstacleScale |-> Val(moabState.obstacleRadius),
                obstacleVisible |-> ObstacleVisible(moabState),
                estimatedPosPosition |->
                    IF EstimatedPosShown(moabState) THEN ballRingPos
                    ELSE scn.estimatedPosPosition,
                estimatedPosScale |->
                    IF EstimatedPosShown(moabState) THEN Val(moabState.estimatedRadius)
                    ELSE scn.estimatedPosScale,
                estimatedPosVisible |-> EstimatedPosShown(moabState),
                estimatedVelPosition |->
                    IF EstimatedVelShown(moabState) THEN ballRingPos
                    ELSE scn.estimatedVelPosition,
                estimatedVelVisible |-> EstimatedVelShown(moabState),
                platePosition |-> platePos,
                plateQuaternion |-> plateQ,
                ballRotation |-> << -Val(moabState.ballOrientX), -Val(moabState.ballOrientY),
                                    -Val(moabState.ballOrientZ), Val(moabState.ballOrientW) >>,
                estimatedPosRotation |->
                    IF EstimatedPosShown(moabState) THEN plateQ
                    ELSE scn.estimatedPosRotation,
                joystickRotation |-> JoystickRotation(scn, moabState),
                frame |-> scn.frame,
                armPosition |-> scn.armPosition,
                arms |-> OrientArms(scn, platePos, plateQ),
                rendered |-> TRUE ]
        IN  [posed EXCEPT !.frame = << DrawnFrame(scn, posed) >>]

\* MoabRenderer.render: a pass only while the model is valid.
RendererRender(scn, cam, thm, valid, moabState, orig, surfaceOrig) ==
    IF valid THEN Render3DScene(scn, cam, thm, moabState, orig, surfaceOrig) ELSE scn

\* ------------------------------------------------------------------ actions
Start ==
    /\ mounted = FALSE
    /\ theme \in {"light", "dark"}
    /\ isInteractive \in BOOLEAN
    /\ isModelValid = TRUE
    /\ model = InitialModelState
    /\ keyboardInput = <<0, 0, 0>>
    /\ activeGamepadIndex = Undefined
    /\ posted = <<>>
    /\ camera = FALSE
    /\ plateOrig = <<0, 0, 0>>
    /\ plateSurfaceOrig = <<0, 0, 0>>
    /\ scene = InitialScene
    /\ outcome = "none"
    /\ lastUpdate = <<>>
    /\ superseded = FALSE
    /\ polled = <<>>
    /\ nPosted = 0
    /\ nAccepted = 0
    /\ lastConnect = <<>>
    /\ unmounted = FALSE
    /\ listeners = {}
    /\ container = FALSE
    /\ loaded = "pending"

Init == Start /\ counting = FALSE

\* _handleKeyDown on _keyboardInput: the six keys assign their axis, any
\* other key leaves the input alone.
KeyCodes ==
    { "ArrowLeft", "ArrowRight", "ArrowUp", "ArrowDown", "BracketLeft", "BracketRight",
      "Space" }

keyboardAxisAmount == 200
keyboardUpDownAmount == 1000

KeyPressedSummed(input, code) ==
    IF code = "ArrowLeft" THEN [input EXCEPT ![1] = @ - keyboardAxisAmount]
    ELSE IF code = "ArrowRight" THEN [input EXCEPT ![1] = @ + keyboardAxisAmount]
    ELSE IF code = "ArrowUp" THEN [input EXCEPT ![2] = @ - keyboardAxisAmount]
    ELSE IF code = "ArrowDown" THEN [input EXCEPT ![2] = @ + keyboardAxisAmount]
    ELSE IF code = "BracketLeft" THEN [input EXCEPT ![3] = @ + keyboardUpDownAmount]
    ELSE IF code = "BracketRight" THEN [input EXCEPT ![3] = @ - keyboardUpDownAmount]
    ELSE input
KeyPressed(input, code) ==
    IF code = "ArrowLeft" THEN [input EXCEPT ![1] = -keyboardAxisAmount]
    ELSE IF code = "ArrowRight" THEN [input EXCEPT ![1] = keyboardAxisAmount]
    ELSE IF code = "ArrowUp" THEN [input EXCEPT ![2] = -keyboardAxisAmount]
    ELSE IF code = "ArrowDown" THEN [input EXCEPT ![2] = keyboardAxisAmount]
    ELSE IF code = "BracketLeft" THEN [input EXCEPT ![3] = keyboardUpDownAmount]
    ELSE IF code = "BracketRight" THEN [input EXCEPT ![3] = -keyboardUpDownAmount]
    ELSE input

\* The keydown listener, installed in interactive mode.
HandleKeyDown ==
    /\ mounted
    /\ isInteractive
    /\ \E code \in KeyCodes : keyboardInput' = KeyPressed(keyboardInput, code)
    /\ UNCHANGED << mounted, theme, isInteractive, isModelValid, model,
                    activeGamepadIndex, posted, camera, plateOrig, plateSurfaceOrig,
                    scene, outcome, lastUpdate, superseded, polled, counting, nPosted,
                    nAccepted, lastConnect, unmounted,
                    listeners, container, loaded >>

\* The gamepadconnected listener, installed in interactive mode.
HandleGamepadConnected ==
    /\ mounted
    /\ isInteractive
    /\ \E index \in 0..MaxPad :
         /\ activeGamepadIndex' = Num(index)
         /\ lastConnect' = << index, FALSE >>
    /\ UNCHANGED << mounted, theme, isInteractive, isModelValid, model, keyboardInput,
                    posted, camera, plateOrig, plateSurfaceOrig, scene, outcome,
                    lastUpdate, superseded, polled, counting, nPosted, nAccepted,
                    unmounted, listeners, container, loaded >>

\* _handleGamepadDisconnected on _activeGamepadIndex, for the index of the
\* gamepad that left.
GamepadDisconnectedAny(active, index) == Undefined
GamepadDisconnected(active, index) ==
    IF Num(index) = active THEN Undefined ELSE active

\* The gamepaddisconnected listener, installed in interactive mode.
HandleGamepadDisconnected ==
    /\ mounted
    /\ isInteractive
    /\ \E index \in 0..MaxPad :
         /\ activeGamepadIndex' = GamepadDisconnected(activeGamepadIndex, index)
         /\ lastConnect' = IF lastConnect # <<>> /\ lastConnect[1] = index
                           THEN << index, TRUE >> ELSE lastConnect
    /\ UNCHANGED << mounted, theme, isInteractive, isModelValid, model, keyboardInput,
                    posted, camera, plateOrig, plateSurfaceOrig, scene, outcome,
                    lastUpdate, superseded, polled, counting, nPosted, nAccepted,
                    unmounted, listeners, container, loaded >>

\* navigator.getGamepads()[i]: <<>> for an entry that is null or missing,
\* <<axes>> for a gamepad. The axes tried: one, two, three and four of them,
\* at rest or fully deflected.
GamepadAxes ==
    { << 1000 >>, << 1000, -1000 >>, << -1000, 0, 1000 >>, << 0, 1000, 0, 1000 >> }

Gamepads == { Undefined } \cup { << axes >> : axes \in GamepadAxes }

\* Math.pow(|value|, 4) * 0.5 with the sign of value; exact in thousandths
\* for the values 0 and +-1000.
ApplyNonlinearScaleToGamepadAxis(value) ==
    LET absValue == Abs(value)
        squared == (absValue * absValue) \div 1000
        scaledValue == (((squared * squared) \div 1000) * 500) \div 1000
    IN  IF value < 0 THEN -scaledValue ELSE scaledValue

\* gamepad && gamepad.axes && gamepad.axes.length >= 2
GamepadUsable(gamepad) == gamepad # Undefined /\ Len(gamepad[1]) >= 2

\* The action of _sendActionFromInput for a gamepad reading and the keyboard
\* input.
ActionFromInput(gamepad, input) ==
    IF GamepadUsable(gamepad)
    THEN LET axes == gamepad[1]
         IN  << ApplyNonlinearScaleToGamepadAxis(axes[1]) + input[1],
                ApplyNonlinearScaleToGamepadAxis(axes[2]) + input[2],
                (IF Len(axes) >= 4 THEN -axes[4] ELSE 0) + input[3] >>
    ELSE input

\* _sendActionFromInput: read the active gamepad, if there is one, post the
\* action, then clear the keyboard input.
SendActionFromInput ==
    /\ \E gamepad \in IF activeGamepadIndex # Undefined THEN Gamepads ELSE { Undefined } :
         /\ polled' = gamepad
         /\ posted' = ActionFromInput(gamepad, keyboardInput)
    /\ keyboardInput' = <<0, 0, 0>>
    /\ nPosted' = IF counting THEN nPosted + 1 ELSE nPosted

\* The window listeners componentDidMount of MoabVisualizer installs.
VisualizerListeners(interactive) ==
    { "message" } \cup
    IF interactive THEN { "gamepadconnected", "gamepaddisconnected", "keydown" } ELSE {}

\* componentDidMount of MoabRenderer (scene objects, asset load started; the
\* ref callback has set the container) and of MoabVisualizer (listeners; in
\* interactive mode a first action update).
Mount ==
    /\ ~mounted
    /\ ~unmounted
    /\ mounted' = TRUE
    /\ container' = TRUE
    /\ listeners' = listeners \cup VisualizerListeners(isInteractive)
    /\ IF isInteractive THEN SendActionFromInput
       ELSE UNCHANGED << keyboardInput, posted, polled, nPosted >>
    /\ UNCHANGED << theme, isInteractive, isModelValid, model, activeGamepadIndex,
                    camera, plateOrig, plateSurfaceOrig, scene, outcome, lastUpdate,
                    superseded, counting, nAccepted, lastConnect, unmounted, loaded >>

\* componentWillUnmount of MoabVisualizer and of MoabRenderer (each removes
\* the listeners it names), and the ref callback with null.
Unmount ==
    /\ mounted
    /\ mounted' = FALSE
    /\ unmounted' = TRUE
    /\ listeners' = (listeners \ VisualizerListeners(isInteractive)) \ { "resize" }
    /\ container' = FALSE
    /\ UNCHANGED << theme, isInteractive, isModelValid, model, keyboardInput,
                    activeGamepadIndex, posted, camera, plateOrig, plateSurfaceOrig,
                    scene, outcome, lastUpdate, superseded, polled, counting, nPosted,
                    nAccepted, lastConnect, loaded >>

\* The asset-load callback, which runs once, some time after the mount that
\* started the load: plate origins from the asset, the camera, the resize
\* listener, then this._container!.appendChild, which raises a TypeError on a
\* container that is null, and otherwise the controls and controls.update(),
\* whose first 'change' event runs a render pass.
AssetsLoaded ==
    /\ mounted \/ unmounted
    /\ loaded = "pending"
    /\ \E asset \in Assets :
         LET orig == << asset.center[1], asset.center[2], asset.maxZ >>
             surfaceOrig == << plateSurfaceOrig[1], plateSurfaceOrig[2], asset.maxZ >>
         IN  /\ plateOrig' = orig
             /\ plateSurfaceOrig' = surfaceOrig
             /\ camera' = TRUE
             /\ listeners' = listeners \cup { "resize" }
             /\ IF container
                THEN /\ loaded' = "completed"
                     /\ scene' = RendererRender([scene EXCEPT !.armPosition = asset.arm],
                                                TRUE, theme, isModelValid, model, orig,
                                                surfaceOrig)
                ELSE /\ loaded' = "raised"
                     /\ scene' = [scene EXCEPT !.armPosition = asset.arm]
    /\ UNCHANGED << mounted, theme, isInteractive, isModelValid, model, keyboardInput,
                    activeGamepadIndex, posted, outcome, lastUpdate, superseded, polled,
                    counting, nPosted, nAccepted, lastConnect, unmounted, container >>

\* The 'change' listener on the orbit controls (the user turns the camera):
\* a render pass of the current model.
ControlsChange ==
    /\ camera
    /\ loaded = "completed"
    /\ scene' = RendererRender(scene, camera, theme, isModelValid, model,
                               plateOrig, plateSurfaceOrig)
    /\ UNCHANGED << mounted, theme, isInteractive, isModelValid, model, keyboardInput,
                    activeGamepadIndex, posted, camera, plateOrig, plateSurfaceOrig,
                    outcome, lastUpdate, superseded, polled, counting, nPosted,
                    nAccepted, lastConnect, unmounted, listeners, container, loaded >>

\* History only: whether the mapping `state` lacks a key that the last
\* accepted mapping carried.
Supersedes(last, state) ==
    /\ last # <<>>
    /\ \E k \in Keys : last[1][k] # Undefined /\ state[k] = Undefined

\* Whether _receiveMessage ends in _sendActionFromInput: in interactive mode,
\* once setState is reached.
SendsActionUnlessRaised(interactive, disposition) ==
    interactive /\ disposition # "raised"
SendsAction(interactive, disposition) ==
    interactive /\ disposition = "accepted"

\* _receiveMessage for one window message event, with the re-render that
\* setState causes and, in interactive mode, the action update.
ReceiveMessage(p) ==
    /\ mounted
    /\ (counting /\ Disposition(p) = "accepted") => nAccepted < MaxMessages
    /\ outcome' = Disposition(p)
    /\ IF Disposition(p) = "accepted"
       THEN /\ isModelValid' = TRUE
            /\ model' = ResolveState(StateOf(p))
            /\ lastUpdate' = << StateOf(p) >>
            /\ superseded' = Supersedes(lastUpdate, StateOf(p))
            /\ scene' = RendererRender(scene, camera, theme, TRUE, model',
                                       plateOrig, plateSurfaceOrig)
            /\ nAccepted' = IF counting THEN nAccepted + 1 ELSE nAccepted
       ELSE UNCHANGED << isModelValid, model, lastUpdate, superseded, scene, nAccepted >>
    /\ IF SendsAction(isInteractive, Disposition(p)) THEN SendActionFromInput
       ELSE UNCHANGED << keyboardInput, posted, polled, nPosted >>
    /\ UNCHANGED << mounted, theme, isInteractive, activeGamepadIndex, camera, plateOrig,
                    plateSurfaceOrig, counting, lastConnect, unmounted,
                    listeners, container, loaded >>

Receive(payloads) == \E p \in payloads : ReceiveMessage(p)

\* Message intake: malformed payloads and updates over the intake groups.
Next == Mount \/ AssetsLoaded \/ ControlsChange \/ Receive(IntakePayloads)

Spec == Init /\ [][Next]_vars

\* The render pass: a light, non-interactive visualizer receiving updates
\* over the scene groups.
InitScene == Init /\ theme = "light" /\ ~isInteractive

NextScene == Mount \/ AssetsLoaded \/ ControlsChange \/ Receive(ScenePayloads)

SpecScene == InitScene /\ [][NextScene]_vars

\* The plate and the arms: a light, non-interactive visualizer receiving
\* updates over the plate poses.
NextPose == Mount \/ AssetsLoaded \/ ControlsChange \/ Receive(PosePayloads)

SpecPose == InitScene /\ [][NextPose]_vars

\* Interaction: a light visualizer, interactive or not, whose messages are
\* counted, with the keyboard, the gamepads, and a payload for each way
\* through _receiveMessage: the early returns, the two errors, and an update.
InputPayloads ==
    { Payload("nonstring", "incompatible", "other", "undefined", EmptyMap),
      Payload("badjson", "incompatible", "other", "undefined", EmptyMap),
      Payload("null", "incompatible", "other", "undefined", EmptyMap),
      Payload("object", "incompatible", "IterationUpdate", "object", EmptyMap),
      Payload("object", "compatible", "other", "object", EmptyMap),
      Payload("object", "compatible", "IterationUpdate", "null", EmptyMap),
      Payload("object", "compatible", "IterationUpdate", "object",
              [EmptyMap EXCEPT !["roll"] = Num(1000)]) }

InitInput == Start /\ theme = "light" /\ counting = TRUE

NextInput ==
    \/ Mount
    \/ AssetsLoaded
    \/ ControlsChange
    \/ HandleKeyDown
    \/ HandleGamepadConnected
    \/ HandleGamepadDisconnected
    \/ Receive(InputPayloads)

SpecInput == InitInput /\ [][NextInput]_vars

\* The life of the components: a light visualizer, interactive or not, that
\* is mounted and unmounted while its asset load is pending or done, with the
\* keyboard and the messages.
InitLifecycle == Start /\ theme = "light" /\ counting = FALSE

NextLifecycle ==
    \/ Mount
    \/ Unmount
    \/ AssetsLoaded
    \/ ControlsChange
    \/ HandleKeyDown
    \/ Receive(InputPayloads)

SpecLifecycle == InitLifecycle /\ [][NextLifecycle]_vars

\* ================================================================== claims
\* ------------------------------------------------------------------------ C1
\* C1: every message event, whatever its payload, leaves _receiveMessage
\* either accepted or dropped; the handler never raises an error.
C1_AcceptedOrDropped == outcome \in {"none", "accepted", "dropped"}

\* ------------------------------------------------------------------------ C2
\* <<current name, legacy name, model field>>
C2_Aliases ==
    { <<"roll", "tilt_x", "roll">>, <<"pitch", "tilt_y", "pitch">>,
      <<"obstacle_x", "obstacle_pos_x", "obstaclePosX">>,
      <<"obstacle_y", "obstacle_pos_y", "obstaclePosY">>,
      <<"plate_x", "plate_pos_x", "platePosX">>,
      <<"plate_y", "plate_pos_y", "platePosY">>,
      <<"plate_z", "plate_pos_z", "platePosZ">>,
      <<"target_x", "target_pos_x", "targetPosX">>,
      <<"target_y", "target_pos_y", "targetPosY">> }

\* C2: for each of the nine aliased fields, the value resolved from an
\* accepted message is the current-name value whenever the current name is
\* present (also when the legacy name is present too), and the legacy-name
\* value when only the legacy name is present.
C2_CurrentNameWins ==
    lastUpdate # <<>> =>
        \A a \in C2_Aliases :
            LET m == lastUpdate[1] IN
            /\ m[a[1]] # Undefined => model[a[3]] = m[a[1]]
            /\ (m[a[1]] = Undefined /\ m[a[2]] # Undefined) => model[a[3]] = m[a[2]]

\* An accepted message carrying roll = 0 and tilt_x = 0.001 resolved roll to 0.
C2_Witness ==
    /\ outcome = "accepted"
    /\ lastUpdate # <<>>
    /\ lastUpdate[1]["roll"] = Num(0)
    /\ lastUpdate[1]["tilt_x"] = Num(1)
    /\ model.roll = Num(0)

\* ------------------------------------------------------------------------ C3
\* The numeric model fields other than the five estimated ones.
C3_Fields ==
    { "timeDelta", "ballRadius", "ballPosX", "ballPosY", "ballPosZ",
      "ballVelX", "ballVelY", "ballVelZ",
      "ballOrientX", "ballOrientY", "ballOrientZ", "ballOrientW",
      "targetPosX", "targetPosY", "obstaclePosX", "obstaclePosY", "obstacleRadius",
      "platePosX", "platePosY", "platePosZ", "plateNorX", "plateNorY", "plateNorZ",
      "roll", "pitch", "reward" }

\* C3: after any accepted message every model field other than the five
\* estimated ones holds a defined value (terminal is a boolean throughout),
\* the documented default when the message lacks it: ball radius 0.020,
\* plate Z 0.042.
C3_DefinedFields ==
    lastUpdate # <<>> =>
        /\ \A f \in C3_Fields : model[f] # Undefined
        /\ lastUpdate[1]["ball_radius"] = Undefined => model.ballRadius = Num(20)
        /\ (lastUpdate[1]["plate_z"] = Undefined /\ lastUpdate[1]["plate_pos_z"] = Undefined)
              => model.platePosZ = Num(42)

\* ------------------------------------------------------------------------ C4
\* <<wire key, model field>>
C4_Estimated ==
    { <<"estimated_x", "estimatedPosX">>, <<"estimated_y", "estimatedPosY">>,
      <<"estimated_radius", "estimatedRadius">>,
      <<"estimated_vel_x", "estimatedVelX">>, <<"estimated_vel_y", "estimatedVelY">> }

\* C4: after any accepted message, each estimated field absent from the
\* message is undefined in the model state (no default is substituted), and
\* one present holds the message's value, 0 included.
C4_NoEstimatedDefault ==
    lastUpdate # <<>> =>
        \A e \in C4_Estimated :
            /\ lastUpdate[1][e[1]] = Undefined => model[e[2]] = Undefined
            /\ lastUpdate[1][e[1]] # Undefined => model[e[2]] = lastUpdate[1][e[1]]

\* An accepted message with estimated_y = 0 and no estimated_x.
C4_Witness ==
    /\ outcome = "accepted"
    /\ lastUpdate # <<>>
    /\ lastUpdate[1]["estimated_x"] = Undefined
    /\ lastUpdate[1]["estimated_y"] = Num(0)
    /\ model.estimatedPosX = Undefined
    /\ model.estimatedPosY = Num(0)

\* ------------------------------------------------------------------------ C5
\* The wire keys each model field is read from.
C5_Sources ==
    [ timeDelta |-> {"time_delta"}, ballRadius |-> {"ball_radius"},
      ballPosX |-> {"ball_x"}, ballPosY |-> {"ball_y"}, ballPosZ |-> {"ball_z"},
      ballVelX |-> {"ball_vel_x"}, ballVelY |-> {"ball_vel_y"}, ballVelZ |-> {"ball_vel_z"},
      ballOrientX |-> {"ball_qat_x"}, ballOrientY |-> {"ball_qat_y"},
      ballOrientZ |-> {"ball_qat_z"}, ballOrientW |-> {"ball_qat_w"},
      estimatedPosX |-> {"estimated_x"}, estimatedPosY |-> {"estimated_y"},
      estimatedRadius |-> {"estimated_radius"},
      estimatedVelX |-> {"estimated_vel_x"}, estimatedVelY |-> {"estimated_vel_y"},
      targetPosX |-> {"target_x", "target_pos_x"},
      targetPosY |-> {"target_y", "target_pos_y"},
      obstaclePosX |-> {"obstacle_x", "obstacle_pos_x"},
      obstaclePosY |-> {"obstacle_y", "obstacle_pos_y"},
      obstacleRadius |-> {"obstacle_radius"},
      platePosX |-> {"plate_x", "plate_pos_x"},
      platePosY |-> {"plate_y", "plate_pos_y"},
      platePosZ |-> {"plate_z", "plate_pos_z"},
      plateNorX |-> {"plate_nor_x"}, plateNorY |-> {"plate_nor_y"},
      plateNorZ |-> {"plate_nor_z"},
      roll |-> {"roll", "tilt_x"}, pitch |-> {"pitch", "tilt_y"},
      reward |-> {"reward"} ]

\* What a numeric field holds when the message carries none of its keys
\* (the unset ball Z rests the ball on the default plate: 0.009 + 0.042 + radius).
C5_WhenAbsent(f) ==
    CASE f \in {"timeDelta", "ballRadius"} -> Num(20)
      [] f = "ballPosZ" -> Num(51 + Val(model.ballRadius))
      [] f \in {"ballOrientW", "plateNorZ"} -> Num(1000)
      [] f \in {"obstaclePosX", "obstaclePosY"} -> Num(30)
      [] f = "platePosZ" -> Num(42)
      [] f \in {"estimatedPosX", "estimatedPosY", "estimatedRadius",
                "estimatedVelX", "estimatedVelY", "reward"} -> Undefined
      [] OTHER -> Num(0)

\* C5: the model state after an accepted message is a function of that
\* message alone: a field none of whose keys the message carries holds its
\* fixed absent value (undefined for the estimated fields), never an earlier
\* value, and a field the message carries holds a value of that message.
C5_ReplacedWholesale ==
    lastUpdate # <<>> =>
        /\ \A f \in DOMAIN C5_Sources :
              IF \A k \in C5_Sources[f] : lastUpdate[1][k] = Undefined
              THEN model[f] = C5_WhenAbsent(f)
              ELSE model[f] \in { lastUpdate[1][k] : k \in C5_Sources[f] } \ {Undefined}
        /\ model.terminal = (lastUpdate[1]["terminal"] \notin {Undefined, Num(0)})

\* An accepted message with no key at all followed one that carried some
\* key: every field is back at its absent value.
C5_Witness ==
    /\ outcome = "accepted"
    /\ superseded
    /\ lastUpdate = << EmptyMap >>
    /\ model.ballRadius = Num(20)
    /\ model.roll = Num(0)
    /\ model.estimatedPosX = Undefined

\* ------------------------------------------------------------------------ C6
\* C6: after every render pass the estimated-position ring is visible if and
\* only if estimatedPosX, estimatedPosY and estimatedRadius are all present
\* in the current state; after an accepted message with none of these keys
\* it is hidden.
C6_RingVisibility ==
    scene.rendered =>
        /\ scene.estimatedPosVisible <=>
              /\ model.estimatedPosX # Undefined
              /\ model.estimatedPosY # Undefined
              /\ model.estimatedRadius # Undefined
        /\ ( /\ lastUpdate # <<>>
             /\ lastUpdate[1]["estimated_x"] = Undefined
             /\ lastUpdate[1]["estimated_y"] = Undefined
             /\ lastUpdate[1]["estimated_radius"] = Undefined )
              => ~scene.estimatedPosVisible

\* A pass after a message with no estimated-position key hid the ring that
\* an earlier message had shown at radius 0.001.
C6_Witness ==
    /\ scene.rendered
    /\ outcome = "accepted"
    /\ lastUpdate[1]["estimated_x"] = Undefined
    /\ lastUpdate[1]["estimated_y"] = Undefined
    /\ lastUpdate[1]["estimated_radius"] = Undefined
    /\ lastUpdate[1]["target_x"] = Num(1)
    /\ scene.estimatedPosScale = 1
    /\ ~scene.estimatedPosVisible

\* ------------------------------------------------------------------------ C7
\* C7: when estimated X and Y are both present (and the ring is posed), the
\* ring sits at exactly those X and Y, 0 included, at plate Z, offset by the
\* plate origin.
C7_RingAtEstimate ==
    ( /\ scene.rendered
      /\ model.estimatedPosX # Undefined
      /\ model.estimatedPosY # Undefined
      /\ model.estimatedRadius # Undefined )
    => scene.estimatedPosPosition =
          VAdd(<< Val(model.estimatedPosX), Val(model.estimatedPosY),
                  Val(model.platePosZ) >>, plateOrig)

\* ------------------------------------------------------------------------ C8
\* C8: when both estimated velocity components are present and 0, the render
\* pass hides the estimated-velocity indicator; the initial state included.
C8_ZeroVelocityHidden ==
    ( /\ scene.rendered
      /\ model.estimatedVelX = Num(0)
      /\ model.estimatedVelY = Num(0) )
    => ~scene.estimatedVelVisible

\* ------------------------------------------------------------------------ C9
\* C9: after every render pass the estimated-velocity indicator is hidden
\* whenever estimatedVelX or estimatedVelY is undefined in the current state.
C9_VelocityNeedsBoth ==
    ( /\ scene.rendered
      /\ (model.estimatedVelX = Undefined \/ model.estimatedVelY = Undefined) )
    => ~scene.estimatedVelVisible

\* A pass over a state with estimatedVelY present and estimatedVelX absent.
C9_Witness ==
    /\ scene.rendered
    /\ outcome = "accepted"
    /\ model.estimatedVelX = Undefined
    /\ model.estimatedVelY = Num(1)
    /\ ~scene.estimatedVelVisible

\* ----------------------------------------------------------------------- C10
\* C10: after every render pass the target marker is hidden if and only if
\* both target coordinates of the current state are exactly 0.
C10_TargetVisibility ==
    scene.rendered =>
        (~scene.targetVisible <=> (model.targetPosX = Num(0) /\ model.targetPosY = Num(0)))

\* A pass over a state with target X 0 and target Y 0.001 shows the target.
C10_Witness ==
    /\ scene.rendered
    /\ outcome = "accepted"
    /\ model.targetPosX = Num(0)
    /\ model.targetPosY = Num(1)
    /\ scene.targetVisible

\* ----------------------------------------------------------------------- C11
\* C11: after every render pass the obstacle is hidden if and only if the
\* obstacle radius of the current state is less than or equal to 0.
C11_ObstacleVisibility ==
    scene.rendered =>
        (~scene.obstacleVisible <=> Val(model.obstacleRadius) <= 0)

\* A pass over a state whose obstacle radius is below zero hides the obstacle.
C11_Witness ==
    /\ scene.rendered
    /\ outcome = "accepted"
    /\ Val(model.obstacleRadius) < 0
    /\ ~scene.obstacleVisible

\* ----------------------------------------------------------------------- C12
ArmNames == {"center", "left", "right"}

\* the square of c = hypot(v, h) of the arm's last solver call
C2(arm) == HypotSquared(scene.arms[arm].v, scene.arms[arm].h)

\* C12: when the solver is given (v, h) with c > a + b, the pose is handled
\* (c clamped, or the last valid angles kept): no angle that is not a number
\* is set on the joints of the arm.
C12_UnreachableHandled ==
    scene.rendered =>
        \A arm \in ArmNames :
            ~RLe(C2(arm), Rat((ArmA + ArmB) * (ArmA + ArmB))) =>
                /\ scene.arms[arm].plateArm # NaN
                /\ scene.arms[arm].servoArm # NaN

\* ----------------------------------------------------------------------- C13
\* C13: at c = a + b (fully extended) and at c = |a - b| = 0 (fully folded,
\* v = h = 0) the solver divides by no zero and returns two angles that are
\* numbers.
C13_BoundariesDefined ==
    scene.rendered =>
        \A arm \in ArmNames :
            ( \/ REq(C2(arm), Rat((ArmA + ArmB) * (ArmA + ArmB)))
              \/ REq(C2(arm), Rat((ArmA - ArmB) * (ArmA - ArmB))) ) =>
                /\ scene.arms[arm].plateArm # NaN
                /\ scene.arms[arm].servoArm # NaN

\* ----------------------------------------------------------------------- C14
\* the plate normal of the current state
PlateNor == << Val(model.plateNorX), Val(model.plateNorY), Val(model.plateNorZ) >>

\* zAxis as the quaternion q rotates it, times |q|^2
RotatedZ(q) ==
    << RotationRows(q)[1][3], RotationRows(q)[2][3], RotationRows(q)[3][3] >>

\* u is a positive multiple of n, or n of u
Parallel(u, n) ==
    /\ u[2] * n[3] - u[3] * n[2] = 0
    /\ u[3] * n[1] - u[1] * n[3] = 0
    /\ u[1] * n[2] - u[2] * n[1] = 0
    /\ u[1] * n[1] + u[2] * n[2] + u[3] * n[3] > 0

\* C14: for every non-zero plate normal n not antiparallel to (0,0,1), of
\* unit length or not, the plate orientation of the pass rotates (0,0,1)
\* onto a vector parallel to n; for n = (0,0,1) it is the identity.
C14_PlateOrientation ==
    scene.rendered =>
        /\ ( /\ PlateNor # <<0, 0, 0>>
             /\ ~(PlateNor[1] = 0 /\ PlateNor[2] = 0 /\ PlateNor[3] < 0) )
           => Parallel(RotatedZ(scene.plateQuaternion), PlateNor)
        /\ PlateNor = <<0, 0, 1000>> => scene.plateQuaternion = <<0, 0, 0, 1>>

\* ----------------------------------------------------------------------- C15
\* C15: a pose set reaches the rendering engine only as a complete batch:
\* what a pass draws is the scene with every entity (ball, target, obstacle,
\* estimated ring, velocity arrow, plate, joystick, the three arms) as the
\* pass has posed it, no draw coming before the last pose update; and nothing
\* is drawn before the camera is there.
C15_CompleteBatch ==
    /\ scene.rendered => scene.frame = << VisiblePoses(scene) >>
    /\ ~camera => scene.frame = <<>>

\* A pass that moved the arms (the plate raised to 0.058) has drawn them as
\* it left them.
C15_Witness ==
    /\ scene.rendered
    /\ outcome = "accepted"
    /\ model.platePosZ = Num(58)
    /\ scene.frame # <<>>
    /\ scene.frame[1].arms = scene.arms
    /\ scene.frame[1].plate = << scene.platePosition, scene.plateQuaternion >>

\* ----------------------------------------------------------------------- C16
\* the scene as a first pass over the current state leaves it
C16_FirstPass ==
    Render3DScene([InitialScene EXCEPT !.armPosition = scene.armPosition], TRUE, theme,
                  model, plateOrig, plateSurfaceOrig)

\* C16: after a pass, the pose of every visible entity (the joystick rotation
\* and the arm joint angles among them) depends on the current state and the
\* constants only: whatever passes came before, the scene shows what a first
\* pass over the current state shows, and a further pass over the same state
\* changes nothing.
C16_PoseFromSnapshotOnly ==
    scene.rendered =>
        /\ VisiblePoses(scene) = VisiblePoses(C16_FirstPass)
        /\ Render3DScene(scene, camera, theme, model, plateOrig, plateSurfaceOrig) = scene

\* A pass over a state with the joystick deflected, after an earlier state
\* that showed the estimated ring: the ring, now hidden, is still where that
\* state put it.
C16_Witness ==
    /\ scene.rendered
    /\ outcome = "accepted"
    /\ model.pitch = Num(1000)
    /\ ~scene.estimatedPosVisible
    /\ scene.estimatedPosPosition # C16_FirstPass.estimatedPosPosition
    /\ scene.joystickRotation = << <<"X", 1000>>, <<"Y", Val(model.roll)>> >>

\* ----------------------------------------------------------------------- C17
\* C17: the local offset that _orientArm rotates by the arm's quaternion and
\* by the plate orientation is a fixed constant: the same vector in every
\* pass, whatever the plate position.
C17_FixedOffset ==
    [][ (scene.rendered /\ scene'.rendered) =>
            \A arm \in ArmNames : scene'.arms[arm].offset = scene.arms[arm].offset ]_vars

\* ----------------------------------------------------------------------- C18
\* C18: under a level plate (normal (0,0,1)) with no lateral displacement the
\* centre, left and right arms, 120 degrees apart, receive the same (v, h).
C18_SameOffsetsWhenLevel ==
    ( /\ scene.rendered
      /\ PlateNor = <<0, 0, 1000>>
      /\ model.platePosX = Num(0)
      /\ model.platePosY = Num(0) )
    => \A arm \in ArmNames :
           /\ REq(scene.arms[arm].v, scene.arms["center"].v)
           /\ REq(scene.arms[arm].h, scene.arms["center"].h)

\* ----------------------------------------------------------------------- C19
\* C19: in interactive mode the number of action updates posted is one (sent
\* on mount) plus the number of accepted messages, whatever else happened:
\* a dropped message, a key, a gamepad event or a render posts none; in
\* non-interactive mode none is ever posted.
C19_OnePerAccepted ==
    nPosted = IF isInteractive /\ mounted THEN 1 + nAccepted ELSE 0

\* Two messages were accepted, then one was dropped: three action updates.
C19_Witness ==
    /\ isInteractive
    /\ nAccepted = 2
    /\ nPosted = 3
    /\ outcome = "dropped"

\* ----------------------------------------------------------------------- C20
KeyboardInputs ==
    { << r, p, h >> : r \in { -200, 0, 200 }, p \in { -200, 0, 200 },
                      h \in { -1000, 0, 1000 } }

\* C20: the keyboard input is always in {-0.2, 0, 0.2} for roll and pitch and
\* in {-1, 0, 1} for height; an action update carries the keyboard input as
\* it stood (added to what the gamepad read gives) and leaves it [0, 0, 0];
\* between action updates the keyboard input changes only by a key assigning
\* its amount to its one axis.
C20_KeyboardConsumed ==
    /\ [](keyboardInput \in KeyboardInputs)
    /\ [][ nPosted' # nPosted =>
             /\ keyboardInput' = <<0, 0, 0>>
             /\ posted' = VAdd(ActionFromInput(polled', <<0, 0, 0>>), keyboardInput) ]_vars
    /\ [][ (nPosted' = nPosted /\ keyboardInput' # keyboardInput) =>
             \E axis \in 1..3 :
                 \E amount \in IF axis = 3 THEN { -1000, 1000 } ELSE { -200, 200 } :
                     keyboardInput' = [keyboardInput EXCEPT ![axis] = amount] ]_vars

\* An action update that carried a roll to the left and a lift, beside a
\* gamepad deflected in roll, has left the keyboard input cleared.
C20_Witness ==
    /\ nPosted = 2
    /\ polled = << << 1000, -1000 >> >>
    /\ posted = << 300, -500, 1000 >>
    /\ keyboardInput = <<0, 0, 0>>

\* ----------------------------------------------------------------------- C21
\* C21: the active gamepad index is undefined exactly when no gamepad has
\* connected or the most recently connected one has disconnected since, and
\* is the index of the most recent connect otherwise (so the disconnect of
\* any other gamepad leaves it alone); an action update sent while it is
\* undefined, or while the gamepad is missing or has fewer than two axes,
\* carries the keyboard input only.
C21_ActiveGamepad ==
    /\ [](activeGamepadIndex =
            IF lastConnect = <<>> \/ lastConnect[2] THEN Undefined
            ELSE Num(lastConnect[1]))
    /\ [][ ( /\ nPosted' # nPosted
             /\ \/ activeGamepadIndex = Undefined
                \/ polled' = Undefined
                \/ Len(polled'[1]) < 2 ) => posted' = keyboardInput ]_vars

\* Gamepad 1 connected last and is still there; the action update sent since
\* found it with a single axis and carried the key pressed alone.
C21_Witness ==
    /\ lastConnect = << 1, FALSE >>
    /\ activeGamepadIndex = Num(1)
    /\ polled = << << 1000 >> >>
    /\ posted = << -200, 0, 0 >>
    /\ nPosted = 2

\* ----------------------------------------------------------------------- C22
\* C22: once the components are unmounted, no window listener they installed
\* (message, resize, gamepadconnected, gamepaddisconnected, keydown) is
\* registered, whenever the asset load completes, and the asset-load callback
\* has not failed on the container that was removed.
C22_NoListenerAfterUnmount ==
    unmounted => (listeners = {} /\ loaded # "raised")
====
